---- MODULE Spec2Model ----
(***************************************************************************)
(* One room of the snake server (src/snake_server.py): the Room engine     *)
(* (add_player, remove_player, start_game, step, end_game, spawn_food),    *)
(* the per-connection handler (JOIN, INPUT, start_request, EXIT/close) and *)
(* the scheduler pass of game_loop.  asyncio runs every handler branch and *)
(* every game_loop pass without preemption between two awaits, so each is  *)
(* one atomic action.  Rooms share no state; one room is modelled.         *)
(***************************************************************************)
EXTENDS Integers, Sequences, FiniteSets, TLC

----------------------------------------------------------------------------
(* Program constants, scaled down, and the bounds of the model.            *)

\* snake_protocol.py sets 50 x 50; the model keeps the code's formulas for
\* the spawn rectangle and the walls and runs them on a smaller board.
MAP_WIDTH == 6
MAP_HEIGHT == 6
\* snake_protocol.py sets 10.
ROOM_CAPACITY == 3

\* ROOM_CAPACITY scaled to 4 instead: the capacity of a room that two bots
\* and one human do not fill.
WIDE_CAPACITY == 4
\* spawn_food keeps 3 food cells.
FOOD_TARGET == 3
\* add_player benches bots while at most 4 humans are in the room.
BENCH_HUMAN_LIMIT == 4
\* The bounds of the specifications below: ticks in a round, calls of step()
\* in all, rounds started, INPUT messages handled.
MaxTick == 2
MaxDuelTick == 3
MaxGrowTick == 4
MaxChaseTick == 5
MaxSteps == 3
MaxRounds == 2
MaxInputs == 3
MaxTurns == 3

\* The two bots SnakeServer.__init__ adds to the room, and the connections
\* (one player id per connection, uuid in the code).
Bot0 == "bot_0_0"
Bot1 == "bot_0_1"
Bots == {Bot0, Bot1}
Conns == {"h1", "h2", "h3"}

None == "None"
\* An absent cell (Python None where a cell may stand).
NoCell == <<>>

Cells == (0 .. MAP_WIDTH - 1) \X (0 .. MAP_HEIGHT - 1)

\* random.randint draws of spawn_food are taken from these cells only.
FoodCandidates == {<<2, 1>>, <<3, 1>>, <<3, 2>>}

Max(a, b) == IF a >= b THEN a ELSE b
Min(a, b) == IF a <= b THEN a ELSE b

SeqToSet(s) == {s[i] : i \in 1 .. Len(s)}

\* Front of a non-empty sequence (deque.pop() removes the last element).
Front(s) == SubSeq(s, 1, Len(s) - 1)

\* Order on cells, used only to list a drawn set of cells in a fixed order.
CellLess(a, b) == a[1] < b[1] \/ (a[1] = b[1] /\ a[2] < b[2])

RECURSIVE SetToSortedSeq(_)
SetToSortedSeq(S) ==
    IF S = {} THEN <<>>
    ELSE LET m == CHOOSE a \in S : \A b \in S \ {a} : CellLess(a, b)
         IN <<m>> \o SetToSortedSeq(S \ {m})

\* All orderings of a finite set, as sequences.
RECURSIVE Perms(_)
Perms(S) ==
    IF S = {} THEN {<<>>}
    ELSE UNION {{<<x>> \o p : p \in Perms(S \ {x})} : x \in S}

----------------------------------------------------------------------------
(* PlayerState / BotPlayer                                                 *)

BotName(pid) == IF pid = Bot0 THEN "AI" ELSE "AI2"

\* PlayerState.__init__ (is_bot = TRUE: BotPlayer.__init__).
PlayerState(pid, username, isbot) ==
    [id |-> pid, username |-> username, is_bot |-> isbot,
     connected |-> TRUE, alive |-> TRUE, score |-> 0,
     direction |-> <<1, 0>>, body |-> <<>>, body_set |-> {},
     eliminated |-> FALSE]

\* The clockwise list of BotPlayer.get_move: R, D, L, U.
clock_wise == << <<1, 0>>, <<0, 1>>, <<-1, 0>>, <<0, -1>> >>

ClockIndex(d) ==
    IF \E i \in 1 .. 4 : clock_wise[i] = d
    THEN (CHOOSE i \in 1 .. 4 : clock_wise[i] = d) - 1
    ELSE 0

\* get_move whose last branch takes the entry two places on in the
\* clockwise list (the reverse) instead of the previous one.
get_move_Reverse(direction, move_idx) ==
    LET idx == ClockIndex(direction)
    IN IF move_idx = 0 THEN clock_wise[idx + 1]
       ELSE IF move_idx = 1 THEN clock_wise[((idx + 1) % 4) + 1]
       ELSE clock_wise[((idx + 2) % 4) + 1]

\* BotPlayer.get_move: the new direction for policy output move_idx.
\* The policy (a neural network) is an input: any of 0, 1, 2.
get_move(direction, move_idx) ==
    LET idx == ClockIndex(direction)
    IN IF move_idx = 0 THEN clock_wise[idx + 1]
       ELSE IF move_idx = 1 THEN clock_wise[((idx + 1) % 4) + 1]
       ELSE clock_wise[((idx + 3) % 4) + 1]

----------------------------------------------------------------------------
(* Room: a record of the fields of class Room.  players is the dict in its *)
(* insertion order.  spawned, sent and crashed are not fields of the code: *)
(* spawned records who was given a body in the round, sent the last        *)
(* broadcast message, crashed that step() raised (IndexError on p.body[0]) *)
(* which ends game_loop.  spectators, not a field either, records who was  *)
(* added while the round was RUNNING.                                      *)

NoMsg == [t |-> "none", tick |-> 0, moves |-> <<>>, ranks |-> <<>>,
          winner_id |-> None]

\* Room.__init__
NewRoom ==
    [status |-> "IDLE", players |-> <<>>, host_id |-> None,
     food |-> <<>>, occupied_set |-> {}, tick_id |-> 0,
     death_order |-> <<>>, countdown_deadline |-> None,
     pending_deaths |-> {},
     capacity |-> ROOM_CAPACITY,
     spawned |-> {}, sent |-> NoMsg, crashed |-> FALSE, spectators |-> {}]

Ids(ps) == {ps[i].id : i \in 1 .. Len(ps)}

Index(ps, pid) == CHOOSE i \in 1 .. Len(ps) : ps[i].id = pid

Get(ps, pid) == ps[Index(ps, pid)]

\* del self.players[pid]
Del(ps, pid) == SelectSeq(ps, LAMBDA p : p.id # pid)

\* self.players[pid] = player: a new key goes last, an old key keeps its place.
Put(ps, player) ==
    IF player.id \in Ids(ps)
    THEN [ps EXCEPT ![Index(ps, player.id)] = player]
    ELSE Append(ps, player)

\* Room._is_benched_bot
is_benched_bot(p) == p.is_bot /\ ~p.alive /\ ~p.eliminated

\* Room.counted_players / counted_player_count
counted_players(ps) == SelectSeq(ps, LAMBDA p : ~is_benched_bot(p))

counted_player_count(ps) == Len(counted_players(ps))

\* The bench loop of add_player: every alive bot but the first in dict
\* order is popped from active_bots and set alive = connected = False.
BenchBots(ps) ==
    LET active == {i \in 1 .. Len(ps) : ps[i].is_bot /\ ps[i].alive}
        keep == IF active = {} THEN 0
                ELSE CHOOSE i \in active : \A j \in active : i <= j
    IN [i \in 1 .. Len(ps) |->
          IF i \in active /\ i # keep
          THEN [ps[i] EXCEPT !.alive = FALSE, !.connected = FALSE]
          ELSE ps[i]]

\* Room.add_player rejecting only above the capacity, not at it.
add_player_AboveCapacity(R, player) ==
    IF counted_player_count(R.players) > R.capacity
    THEN [ok |-> FALSE, room |-> R]
    ELSE
      LET p1 == IF R.status = "RUNNING"
                THEN [player EXCEPT !.alive = FALSE] ELSE player
          ps1 == Put(R.players, p1)
          host1 == IF R.host_id = None THEN p1.id ELSE R.host_id
          human_count == Cardinality({i \in 1 .. Len(ps1) : ~ps1[i].is_bot})
          ps2 == IF ~p1.is_bot /\ human_count <= BENCH_HUMAN_LIMIT
                    /\ R.status = "WAITING"
                 THEN BenchBots(ps1) ELSE ps1
          st == IF R.status = "IDLE" THEN "WAITING" ELSE R.status
      IN [ok |-> TRUE,
          room |-> [R EXCEPT !.players = ps2, !.host_id = host1,
                             !.status = st,
                             !.spectators = IF R.status = "RUNNING"
                                            THEN @ \cup {p1.id} ELSE @]]

\* Room.add_player: [ok, room].  ok = FALSE is the ROOM_FULL answer.
add_player(R, player) ==
    IF counted_player_count(R.players) >= R.capacity
    THEN [ok |-> FALSE, room |-> R]
    ELSE
      LET p1 == IF R.status = "RUNNING"
                THEN [player EXCEPT !.alive = FALSE] ELSE player
          ps1 == Put(R.players, p1)
          host1 == IF R.host_id = None THEN p1.id ELSE R.host_id
          human_count == Cardinality({i \in 1 .. Len(ps1) : ~ps1[i].is_bot})
          ps2 == IF ~p1.is_bot /\ human_count <= BENCH_HUMAN_LIMIT
                    /\ R.status = "WAITING"
                 THEN BenchBots(ps1) ELSE ps1
          st == IF R.status = "IDLE" THEN "WAITING" ELSE R.status
      IN [ok |-> TRUE,
          room |-> [R EXCEPT !.players = ps2, !.host_id = host1,
                             !.status = st,
                             !.spectators = IF R.status = "RUNNING"
                                            THEN @ \cup {p1.id} ELSE @]]

\* ResetBotScores that never resets: the scores are left as they are.
ResetBotScores_Keep(ps) == ps

\* The tail of remove_player: bot scores are reset when no human is connected.
ResetBotScores(ps) ==
    IF \E i \in 1 .. Len(ps) : ~ps[i].is_bot /\ ps[i].connected
    THEN ps
    ELSE [i \in 1 .. Len(ps) |->
            IF ps[i].is_bot THEN [ps[i] EXCEPT !.score = 0] ELSE ps[i]]

\* Room.remove_player
remove_player(R, pid) ==
    LET R1 ==
          IF pid \notin Ids(R.players) THEN R
          ELSE
            LET i == Index(R.players, pid)
                ps1 == [R.players EXCEPT ![i].connected = FALSE]
            IN IF R.status = "WAITING"
               THEN LET ps2 == Del(ps1, pid)
                    IN [R EXCEPT
                          !.players = ps2,
                          !.host_id = IF R.host_id = pid
                                      THEN (IF ps2 # <<>> THEN ps2[1].id
                                            ELSE None)
                                      ELSE R.host_id,
                          !.status = IF ps2 = <<>> THEN "IDLE" ELSE "WAITING"]
               ELSE IF R.status = "RUNNING"
               THEN [R EXCEPT
                       !.players = [ps1 EXCEPT ![i].alive = FALSE],
                       !.pending_deaths = @ \cup {pid}]
               ELSE [R EXCEPT !.players = ps1]
    IN [R1 EXCEPT !.players = ResetBotScores(R1.players)]

----------------------------------------------------------------------------
(* spawn_food, start_game, end_game                                        *)

\* The spawn rectangle of start_game and of the revival in step.
spawn_x_min0 == Max(2, MAP_WIDTH \div 5)
spawn_x_max0 == Min(MAP_WIDTH - 3, MAP_WIDTH - MAP_WIDTH \div 5)
spawn_y_min0 == Max(2, MAP_HEIGHT \div 5)
spawn_y_max0 == Min(MAP_HEIGHT - 3, MAP_HEIGHT - MAP_HEIGHT \div 5)
spawn_x_min == IF spawn_x_min0 > spawn_x_max0 THEN 2 ELSE spawn_x_min0
spawn_x_max == IF spawn_x_min0 > spawn_x_max0 THEN MAP_WIDTH - 3
               ELSE spawn_x_max0
spawn_y_min == IF spawn_y_min0 > spawn_y_max0 THEN 2 ELSE spawn_y_min0
spawn_y_max == IF spawn_y_min0 > spawn_y_max0 THEN MAP_HEIGHT - 3
               ELSE spawn_y_max0

\* The cells random.randint(spawn_x_min, spawn_x_max) x (spawn_y_...) draws.
SpawnRect == (spawn_x_min .. spawn_x_max) \X (spawn_y_min .. spawn_y_max)

\* start_body = [(sx, sy), (sx-1, sy), (sx-2, sy)]
start_body(c) == <<c, <<c[1] - 1, c[2]>>, <<c[1] - 2, c[2]>> >>

\* "collides": the drawn cell is in the body_set of some player of the room.
Collides(ps, c) == \E j \in 1 .. Len(ps) : c \in ps[j].body_set

\* The outcomes of the bounded search "for _ in range(100)": a drawn cell
\* that does not collide, or NoCell (found = False), which needs every one
\* of the 100 draws to collide and so some cell of the rectangle to collide.
SpawnDraws(ps) ==
    {c \in SpawnRect : ~Collides(ps, c)}
      \cup (IF \E c \in SpawnRect : Collides(ps, c) THEN {NoCell} ELSE {})

\* Room.spawn_food: the lists food may become.  The loop draws until 3 food
\* cells exist; the cells drawn are free cells of FoodCandidates.
spawn_food(foodlist, occ) ==
    LET free == {c \in FoodCandidates :
                    c \notin occ /\ c \notin SeqToSet(foodlist)}
        need == Max(0, Min(FOOD_TARGET - Len(foodlist), Cardinality(free)))
    IN {foodlist \o SetToSortedSeq(S) :
          S \in {T \in SUBSET free : Cardinality(T) = need}}

\* Lines 237-257 of start_game: flags and scores of the new round.
ReviveForRound(ps) ==
    LET ps1 == [i \in 1 .. Len(ps) |->
                  [ps[i] EXCEPT !.eliminated = FALSE, !.score = 0,
                                !.alive = IF ps[i].is_bot THEN @ ELSE TRUE]]
        human_count == Cardinality({i \in 1 .. Len(ps1) :
                                      ~ps1[i].is_bot /\ ps1[i].connected})
        target_bots == IF human_count > 0 THEN 1 ELSE 0
        BotRank(i) == Cardinality({j \in 1 .. i - 1 : ps1[j].is_bot})
    IN [i \in 1 .. Len(ps1) |->
          IF ps1[i].is_bot
          THEN [ps1[i] EXCEPT !.alive = (BotRank(i) < target_bots),
                              !.connected = (BotRank(i) < target_bots)]
          ELSE ps1[i]]

\* "Prune disconnected players" of start_game.
Prune(ps) == SelectSeq(ps, LAMBDA p : p.connected \/ p.is_bot)

\* "Initialize Snakes" of start_game, from player i on: the set of
\* [players, occupied_set, spawned] it may end with.
RECURSIVE SpawnAll(_, _, _, _)
SpawnAll(ps, i, occ, given) ==
    IF i > Len(ps)
    THEN {[players |-> ps, occupied_set |-> occ, spawned |-> given]}
    ELSE IF ~ps[i].alive THEN SpawnAll(ps, i + 1, occ, given)
    ELSE
      LET ps1 == [ps EXCEPT ![i].body = <<>>, ![i].body_set = {}]
      IN UNION {
           IF c = NoCell
           THEN SpawnAll([ps1 EXCEPT ![i].alive = FALSE], i + 1, occ, given)
           ELSE SpawnAll([ps1 EXCEPT ![i].body = start_body(c),
                                     ![i].body_set = SeqToSet(start_body(c)),
                                     ![i].direction = <<1, 0>>],
                         i + 1, occ \cup SeqToSet(start_body(c)),
                         given \cup {ps1[i].id})
           : c \in SpawnDraws(ps1)}

\* Room.start_game: the set of rooms it may end with.
start_game(R) ==
    LET ps1 == Prune(ReviveForRound(R.players))
    IN UNION {
         {[R EXCEPT !.status = "RUNNING", !.tick_id = 0,
                    !.death_order = <<>>, !.pending_deaths = {},
                    !.players = o.players,
                    !.occupied_set = o.occupied_set,
                    !.spawned = o.spawned,
                    !.spectators = {},
                    !.food = f,
                    !.sent = [NoMsg EXCEPT !.t = "game_start"]]
            : f \in spawn_food(<<>>, o.occupied_set)}
         : o \in SpawnAll(ps1, 1, {}, {})}

\* Python's order of the strings used as usernames and as player ids.
NameOrder == <<"AI", "AI2", "Guest">>
IdOrder == <<Bot0, Bot1, "h1", "h2", "h3">>
Pos(seq, x) == CHOOSE i \in 1 .. Len(seq) : seq[i] = x

\* WinsOver with the tie-break left out: the first listed of the
\* highest-scoring participants wins.
WinsOver_ScoreOnly(p, q) == p.score >= q.score

\* sorted(participants, key=(-score, username, player_id)) puts p before q.
WinsOver(p, q) ==
    \/ p.score > q.score
    \/ p.score = q.score
         /\ Pos(NameOrder, p.username) < Pos(NameOrder, q.username)
    \/ p.score = q.score /\ p.username = q.username
         /\ Pos(IdOrder, p.id) <= Pos(IdOrder, q.id)

Reverse(s) == [i \in 1 .. Len(s) |-> s[Len(s) + 1 - i]]

\* Room.end_game
end_game(R) ==
    LET ps == R.players
        alive == SelectSeq(ps, LAMBDA p : p.alive)
        dead_ids == SelectSeq(Reverse(R.death_order),
                              LAMBDA pid : pid \in Ids(ps))
        dead == [i \in 1 .. Len(dead_ids) |-> Get(ps, dead_ids[i])]
        participants == alive \o dead
        winner_id ==
            IF participants = <<>> THEN None
            ELSE participants[CHOOSE i \in 1 .. Len(participants) :
                                \A j \in 1 .. Len(participants) :
                                    WinsOver(participants[i], participants[j])
                             ].id
        ranks == [i \in 1 .. Len(participants) |->
                    [id |-> participants[i].id, rank |-> i,
                     score |-> participants[i].score]]
        connected == SelectSeq(ps, LAMBDA p : p.connected)
    IN [R EXCEPT
          !.sent = [NoMsg EXCEPT !.t = "game_over", !.tick = R.tick_id,
                                 !.ranks = ranks,
                                 !.winner_id = winner_id],
          !.players = [i \in 1 .. Len(ps) |-> [ps[i] EXCEPT !.score = 0]],
          !.status = "IDLE",
          !.countdown_deadline = None,
          !.host_id = IF connected # <<>> THEN connected[1].id ELSE None]

----------------------------------------------------------------------------
(* Room.step                                                               *)

InBounds(c) == 0 <= c[1] /\ c[1] < MAP_WIDTH /\ 0 <= c[2] /\ c[2] < MAP_HEIGHT

\* list.remove(x): the first occurrence goes.
RemoveFirst(s, x) ==
    IF x \notin SeqToSet(s) THEN s
    ELSE LET k == CHOOSE i \in 1 .. Len(s) :
                    s[i] = x /\ \A j \in 1 .. i - 1 : s[j] # x
         IN SubSeq(s, 1, k - 1) \o SubSeq(s, k + 1, Len(s))

Move(pid, kind, head_add, tail_remove, score, reason, body) ==
    [id |-> pid, kind |-> kind, head_add |-> head_add,
     tail_remove |-> tail_remove, score |-> score, reason |-> reason,
     body |-> body]

\* Phase 1: the intent of an alive player (its body is not empty).
Intent(p, foodlist) ==
    LET nh == <<p.body[1][1] + p.direction[1], p.body[1][2] + p.direction[2]>>
        wg == nh \in SeqToSet(foodlist)
    IN [next_head |-> nh, will_grow |-> wg,
        tail_to_free |-> IF wg THEN NoCell ELSE p.body[Len(p.body)]]

\* Phase 2 without the head-to-head loop: only the wall and body checks.
Collisions_NoHeadOn(alive_ids, intents, occ) ==
    LET tails_to_free == {intents[q].tail_to_free : q \in SeqToSet(alive_ids)}
                            \ {NoCell}
    IN {q \in SeqToSet(alive_ids) :
          \/ ~InBounds(intents[q].next_head)
          \/ /\ intents[q].next_head \in occ
             /\ intents[q].next_head \notin tails_to_free}

\* Phase 2 without the wall check: only the body and head-to-head checks.
Collisions_NoWall(alive_ids, intents, occ) ==
    LET tails_to_free == {intents[q].tail_to_free : q \in SeqToSet(alive_ids)}
                            \ {NoCell}
        BodyHit(q) == /\ intents[q].next_head \in occ
                      /\ intents[q].next_head \notin tails_to_free
        S == SeqToSet(alive_ids)
    IN {q \in S : BodyHit(q)}
         \cup {q \in S : \E o \in S \ {q} :
                 /\ intents[o].next_head = intents[q].next_head
                 /\ (~BodyHit(q) \/ ~BodyHit(o))}

\* Phase 2: who of alive_players (ids, in dict order) is marked dying by the
\* wall, body and head-to-head checks.
Collisions(alive_ids, intents, occ) ==
    LET tails_to_free == {intents[q].tail_to_free : q \in SeqToSet(alive_ids)}
                            \ {NoCell}
        Wall(q) == ~InBounds(intents[q].next_head)
        BodyHit(q) == /\ intents[q].next_head \in occ
                      /\ intents[q].next_head \notin tails_to_free
        Checked(q) == ~Wall(q) /\ ~BodyHit(q)
        S == SeqToSet(alive_ids)
    IN {q \in S : Wall(q) \/ BodyHit(q)}
         \cup {q \in S : \E o \in S \ {q} :
                 /\ intents[o].next_head = intents[q].next_head
                 /\ (Checked(q) \/ Checked(o))}

\* Phase 2: death_reasons after alive_players[i..] were examined in order.
RECURSIVE DeathReasons(_, _, _, _, _)
DeathReasons(alive_ids, i, intents, occ, reasons) ==
    IF i > Len(alive_ids) THEN reasons
    ELSE
      LET q == alive_ids[i]
          nh == intents[q].next_head
          tails_to_free ==
              {intents[o].tail_to_free : o \in SeqToSet(alive_ids)} \ {NoCell}
          others == {o \in SeqToSet(alive_ids) \ {q} :
                        intents[o].next_head = nh}
          r1 == IF ~InBounds(nh) THEN [reasons EXCEPT ![q] = "wall"]
                ELSE IF nh \in occ /\ nh \notin tails_to_free
                THEN [reasons EXCEPT ![q] = "body"]
                ELSE IF others # {}
                THEN [o \in DOMAIN reasons |->
                        IF o = q \/ o \in others THEN "head-on"
                        ELSE reasons[o]]
                ELSE reasons
      IN DeathReasons(alive_ids, i + 1, intents, occ, r1)

\* Phase 3 for one surviving player with the eaten food cell left in food.
CommitMove_KeepFood(S, pid, intent) ==
    LET i == Index(S.players, pid)
        p == S.players[i]
        nh == intent.next_head
        body1 == <<nh>> \o p.body
        set1 == p.body_set \cup {nh}
        occ1 == S.occupied_set \cup {nh}
        t == body1[Len(body1)]
        body2 == IF intent.will_grow THEN body1 ELSE Front(body1)
        tail_remove == IF ~intent.will_grow /\ t # nh THEN t ELSE NoCell
        set2 == IF tail_remove # NoCell THEN set1 \ {t} ELSE set1
        ate == tail_remove = NoCell
        score2 == IF ate THEN p.score + 1 ELSE p.score
    IN [S EXCEPT
          !.players[i].body = body2,
          !.players[i].body_set = set2,
          !.players[i].score = score2,
          !.occupied_set = IF ate THEN occ1 ELSE occ1 \ {tail_remove},
          !.food_eaten = S.food_eaten \/ ate,
          !.moves = Append(S.moves,
                           Move(pid, "move", nh, tail_remove, score2,
                                "", <<>>))]

\* Phase 3 for one surviving player.  S carries players, occupied_set,
\* food, food_eaten and moves.
CommitMove(S, pid, intent) ==
    LET i == Index(S.players, pid)
        p == S.players[i]
        nh == intent.next_head
        body1 == <<nh>> \o p.body
        set1 == p.body_set \cup {nh}
        occ1 == S.occupied_set \cup {nh}
        t == body1[Len(body1)]
        body2 == IF intent.will_grow THEN body1 ELSE Front(body1)
        tail_remove == IF ~intent.will_grow /\ t # nh THEN t ELSE NoCell
        set2 == IF tail_remove # NoCell THEN set1 \ {t} ELSE set1
        ate == tail_remove = NoCell
        score2 == IF ate THEN p.score + 1 ELSE p.score
    IN [S EXCEPT
          !.players[i].body = body2,
          !.players[i].body_set = set2,
          !.players[i].score = score2,
          !.occupied_set = IF ate THEN occ1 ELSE occ1 \ {tail_remove},
          !.food = IF ate THEN RemoveFirst(S.food, nh) ELSE S.food,
          !.food_eaten = S.food_eaten \/ ate,
          !.moves = Append(S.moves,
                           Move(pid, "move", nh, tail_remove, score2,
                                "", <<>>))]

RECURSIVE ApplyMoves(_, _, _, _, _)
ApplyMoves(S, alive_ids, i, intents, dying_ids) ==
    IF i > Len(alive_ids) THEN S
    ELSE IF alive_ids[i] \in dying_ids
    THEN ApplyMoves(S, alive_ids, i + 1, intents, dying_ids)
    ELSE ApplyMoves(CommitMove(S, alive_ids[i], intents[alive_ids[i]]),
                    alive_ids, i + 1, intents, dying_ids)

\* The revival of Phase 4 taking any bot that is not alive, eliminated or
\* not, for a benched one.
Revive_AnyDeadBot(S, dying_ids) ==
    LET ps == S.players
        alive_humans == Cardinality({i \in 1 .. Len(ps) :
                                       ~ps[i].is_bot /\ ps[i].alive})
        alive_bots_after_death ==
            Cardinality({i \in 1 .. Len(ps) :
                           ps[i].is_bot /\ ps[i].alive
                             /\ ps[i].id \notin dying_ids})
        benched == {i \in 1 .. Len(ps) :
                      ps[i].is_bot /\ ~ps[i].alive}
    IN IF alive_humans = 0 /\ alive_bots_after_death > 0 /\ benched # {}
       THEN
         LET b == CHOOSE i \in benched : \A j \in benched : i <= j
             ps1 == [ps EXCEPT ![b].alive = TRUE, ![b].connected = TRUE]
         IN {IF c = NoCell THEN [S EXCEPT !.players = ps1]
             ELSE [S EXCEPT
                     !.players = [ps1 EXCEPT
                                    ![b].body = start_body(c),
                                    ![b].body_set = SeqToSet(start_body(c)),
                                    ![b].direction = <<1, 0>>],
                     !.occupied_set = @ \cup SeqToSet(start_body(c)),
                     !.spawned = @ \cup {ps[b].id},
                     !.moves = Append(@, Move(ps[b].id, "revived", c, NoCell,
                                              ps[b].score, "",
                                              start_body(c)))]
             : c \in SpawnDraws(ps1)}
       ELSE {S}

\* The revival of a benched bot in Phase 4 ("if alive_humans == 0 and
\* alive_bots_after_death > 0 and benched_bots"): the states it may end in.
Revive(S, dying_ids) ==
    LET ps == S.players
        alive_humans == Cardinality({i \in 1 .. Len(ps) :
                                       ~ps[i].is_bot /\ ps[i].alive})
        alive_bots_after_death ==
            Cardinality({i \in 1 .. Len(ps) :
                           ps[i].is_bot /\ ps[i].alive
                             /\ ps[i].id \notin dying_ids})
        benched == {i \in 1 .. Len(ps) :
                      ps[i].is_bot /\ ~ps[i].alive /\ ~ps[i].eliminated}
    IN IF alive_humans = 0 /\ alive_bots_after_death > 0 /\ benched # {}
       THEN
         LET b == CHOOSE i \in benched : \A j \in benched : i <= j
             ps1 == [ps EXCEPT ![b].alive = TRUE, ![b].connected = TRUE]
         IN {IF c = NoCell THEN [S EXCEPT !.players = ps1]
             ELSE [S EXCEPT
                     !.players = [ps1 EXCEPT
                                    ![b].body = start_body(c),
                                    ![b].body_set = SeqToSet(start_body(c)),
                                    ![b].direction = <<1, 0>>],
                     !.occupied_set = @ \cup SeqToSet(start_body(c)),
                     !.spawned = @ \cup {ps[b].id},
                     !.moves = Append(@, Move(ps[b].id, "revived", c, NoCell,
                                              ps[b].score, "",
                                              start_body(c)))]
             : c \in SpawnDraws(ps1)}
       ELSE {S}

\* Phase 4 for one dying id with the score left as it was.
CleanupDeath_KeepScore(S, pid, dying_ids, death_reasons) ==
    IF pid \notin Ids(S.players) THEN {S}
    ELSE
      LET i == Index(S.players, pid)
          p == S.players[i]
          S1 == [S EXCEPT
                   !.players[i].alive = FALSE,
                   !.players[i].eliminated = TRUE,
                   !.players[i].body = <<>>,
                   !.players[i].body_set = {},
                   !.death_order = Append(@, pid),
                   !.occupied_set = @ \ SeqToSet(p.body),
                   !.moves = Append(@, Move(pid, "dead", NoCell, NoCell, 0,
                                            death_reasons[pid], <<>>))]
      IN IF p.is_bot THEN {S1} ELSE Revive(S1, dying_ids)

\* Phase 4 for one dying id.  S carries players, occupied_set, death_order,
\* spawned and moves.
CleanupDeath(S, pid, dying_ids, death_reasons) ==
    IF pid \notin Ids(S.players) THEN {S}
    ELSE
      LET i == Index(S.players, pid)
          p == S.players[i]
          S1 == [S EXCEPT
                   !.players[i].alive = FALSE,
                   !.players[i].eliminated = TRUE,
                   !.players[i].score = Max(0, p.score \div 2),
                   !.players[i].body = <<>>,
                   !.players[i].body_set = {},
                   !.death_order = Append(@, pid),
                   !.occupied_set = @ \ SeqToSet(p.body),
                   !.moves = Append(@, Move(pid, "dead", NoCell, NoCell, 0,
                                            death_reasons[pid], <<>>))]
      IN IF p.is_bot THEN {S1} ELSE Revive(S1, dying_ids)

\* "for pid in dying_ids": a Python set of strings iterates in hash order,
\* so the ids are taken in any order.
RECURSIVE CleanupDeaths(_, _, _, _)
CleanupDeaths(S, todo, dying_ids, death_reasons) ==
    IF todo = <<>> THEN {S}
    ELSE UNION {CleanupDeaths(S2, Tail(todo), dying_ids, death_reasons)
                  : S2 \in CleanupDeath(S, Head(todo), dying_ids,
                                        death_reasons)}

\* Phases 1-4, spawn_food and the delta, for the alive players alive_ids of
\* room R (tick_id already advanced, bot directions already set).
Phases(R, alive_ids) ==
    LET ps == R.players
        intents == [q \in SeqToSet(alive_ids) |-> Intent(Get(ps, q), R.food)]
        dying_ids == R.pending_deaths
                       \cup Collisions(alive_ids, intents, R.occupied_set)
        death_reasons ==
            DeathReasons(alive_ids, 1, intents, R.occupied_set,
                         [q \in Ids(ps) \cup R.pending_deaths |-> "collision"])
        S0 == [players |-> ps, occupied_set |-> R.occupied_set,
               food |-> R.food, food_eaten |-> FALSE, moves |-> <<>>,
               death_order |-> R.death_order, spawned |-> R.spawned]
        S3 == ApplyMoves(S0, alive_ids, 1, intents, dying_ids)
        S4s == UNION {CleanupDeaths(S3, order, dying_ids, death_reasons)
                        : order \in Perms(dying_ids)}
    IN UNION {
         {[R EXCEPT !.players = S4.players,
                    !.occupied_set = S4.occupied_set,
                    !.death_order = S4.death_order,
                    !.spawned = S4.spawned,
                    !.pending_deaths = {},
                    !.food = f,
                    !.sent = [NoMsg EXCEPT !.t = "d", !.tick = R.tick_id,
                                           !.moves = S4.moves]]
            : f \in IF S4.food_eaten
                    THEN spawn_food(S4.food, S4.occupied_set)
                    ELSE {S4.food}}
         : S4 \in S4s}

\* The "Game Over logic" at the top of step.
EndsAtTop(ps) ==
    LET alive == {i \in 1 .. Len(ps) : ps[i].alive}
        alive_humans == Cardinality({i \in alive : ~ps[i].is_bot})
        alive_bots == Cardinality({i \in alive : ps[i].is_bot})
        benched_bots == {i \in 1 .. Len(ps) :
                           ps[i].is_bot /\ ~ps[i].alive /\ ~ps[i].eliminated}
        keep_for_ai_showdown ==
            alive_humans = 0 /\ alive_bots = 1 /\ benched_bots # {}
    IN Cardinality(alive) <= 1 /\ Len(ps) >= 2 /\ ~keep_for_ai_showdown

\* Room.step with the policy outputs mv (alive bot id -> 0..2): the rooms
\* it may end with.
StepWith(R, mv) ==
    LET R1 == [R EXCEPT !.tick_id = @ + 1]
        ps == R1.players
    IN IF \A i \in 1 .. Len(ps) : ~ps[i].alive THEN {end_game(R1)}
       ELSE
         LET ps2 == [i \in 1 .. Len(ps) |->
                       IF ps[i].alive /\ ps[i].is_bot
                       THEN [ps[i] EXCEPT
                               !.direction = get_move(@, mv[ps[i].id])]
                       ELSE ps[i]]
             R2 == [R1 EXCEPT !.players = ps2]
             alive_seq == SelectSeq(ps2, LAMBDA p : p.alive)
             alive_ids == [i \in 1 .. Len(alive_seq) |-> alive_seq[i].id]
         IN IF EndsAtTop(ps2) THEN {end_game(R2)}
            ELSE IF \E i \in 1 .. Len(alive_seq) : alive_seq[i].body = <<>>
            THEN {[R2 EXCEPT !.crashed = TRUE]}
            ELSE Phases(R2, alive_ids)

step(R) ==
    IF R.status # "RUNNING" THEN {R}
    ELSE LET bots == {R.players[i].id : i \in
                        {j \in 1 .. Len(R.players) :
                           R.players[j].alive /\ R.players[j].is_bot}}
         IN UNION {StepWith(R, mv) : mv \in [bots -> 0 .. 2]}

----------------------------------------------------------------------------
VARIABLES
    status, players, host_id, food, occupied_set, tick_id, death_order,
    countdown_deadline, pending_deaths,
    capacity,
    spawned, sent, crashed, spectators,
    conn,     \* per connection: "new", "joined", "detached", "moved" (its
              \* current_room is another room) or "closed"
    rounds,   \* number of start_game calls so far
    steps,    \* number of step() calls so far
    inputs,   \* number of INPUT messages handled so far
    last_d_tick, \* per connection: tick of the last delta sent to its
                 \* websocket, 0 while it was sent none
    last_input,  \* <<connection, direction name>> when the last message
                 \* handled was an INPUT, <<connection, "start_request">>
                 \* when it was a start_request, <<connection,
                 \* "send_failed">> after a failed send, <<bot id, policy
                 \* output>> after a get_move of PolicySpec, <<>> otherwise
    reply        \* <<connection, "join_ok" or error code>> when the last
                 \* message handled was a JOIN, <<>> otherwise

vars == <<status, players, host_id, food, occupied_set, tick_id, death_order,
          countdown_deadline, pending_deaths, capacity, spawned, sent,
          crashed, spectators, conn, rounds, steps, inputs, last_d_tick,
          last_input, reply>>

\* The room of the current state, as a record.
Room ==
    [status |-> status, players |-> players, host_id |-> host_id,
     food |-> food, occupied_set |-> occupied_set, tick_id |-> tick_id,
     death_order |-> death_order, countdown_deadline |-> countdown_deadline,
     pending_deaths |-> pending_deaths,
     spawned |-> spawned, sent |-> sent, crashed |-> crashed,
     capacity |-> capacity, spectators |-> spectators]

SetRoom(R) ==
    /\ status' = R.status
    /\ players' = R.players
    /\ host_id' = R.host_id
    /\ food' = R.food
    /\ occupied_set' = R.occupied_set
    /\ tick_id' = R.tick_id
    /\ death_order' = R.death_order
    /\ countdown_deadline' = R.countdown_deadline
    /\ pending_deaths' = R.pending_deaths
    /\ spawned' = R.spawned
    /\ spectators' = R.spectators
    /\ capacity' = R.capacity
    /\ sent' = R.sent
    /\ crashed' = R.crashed

\* The room variables hold room R.
SetRoomTo(R) ==
    /\ status = R.status
    /\ players = R.players
    /\ host_id = R.host_id
    /\ food = R.food
    /\ occupied_set = R.occupied_set
    /\ tick_id = R.tick_id
    /\ death_order = R.death_order
    /\ countdown_deadline = R.countdown_deadline
    /\ pending_deaths = R.pending_deaths
    /\ spawned = R.spawned
    /\ sent = R.sent
    /\ crashed = R.crashed
    /\ spectators = R.spectators
    /\ capacity = R.capacity

\* SnakeServer.__init__: the room with its two bots added through add_player.
InitRoom ==
    LET r1 == add_player(NewRoom, PlayerState(Bot0, BotName(Bot0), TRUE)).room
    IN add_player(r1, PlayerState(Bot1, BotName(Bot1), TRUE)).room

Init ==
    /\ status = InitRoom.status
    /\ players = InitRoom.players
    /\ host_id = InitRoom.host_id
    /\ food = InitRoom.food
    /\ occupied_set = InitRoom.occupied_set
    /\ tick_id = InitRoom.tick_id
    /\ death_order = InitRoom.death_order
    /\ countdown_deadline = InitRoom.countdown_deadline
    /\ pending_deaths = InitRoom.pending_deaths
    /\ spawned = InitRoom.spawned
    /\ spectators = InitRoom.spectators
    /\ capacity = InitRoom.capacity
    /\ sent = InitRoom.sent
    /\ crashed = InitRoom.crashed
    /\ conn = [c \in Conns |-> "new"]
    /\ rounds = 0
    /\ steps = 0
    /\ inputs = 0
    /\ last_d_tick = [c \in Conns |-> 0]
    /\ last_input = <<>>
    /\ reply = <<>>

----------------------------------------------------------------------------
(* SnakeServer.handler: one action per message branch, per connection.     *)
(* conn[c] is the handler's local state: "new" (current_room is None),     *)
(* "joined" (current_room is the room and player is the object stored in   *)
(* the room), "detached" (current_room is the room, player is a new object *)
(* that a rejected re-JOIN created and never stored), "closed".            *)

UserName(c) == "Guest"

\* MSG_JOIN on a connection in handler state cs.
JoinIn(c, cs) ==
    /\ ~crashed
    /\ conn[c] \in cs
    /\ LET r == add_player(Room, PlayerState(c, UserName(c), FALSE))
       IN /\ SetRoom(r.room)
          /\ reply' = <<c, IF r.ok THEN "join_ok" ELSE "ROOM_FULL">>
          /\ conn' = [conn EXCEPT ![c] =
                        IF r.ok THEN "joined"
                        ELSE IF conn[c] = "new" THEN "new" ELSE "detached"]
    /\ UNCHANGED <<rounds, steps, inputs, last_d_tick>>
    /\ last_input' = <<>>

\* The first accepted JOIN of a connection.
Join(c) == JoinIn(c, {"new"})

\* A JOIN on a connection that is already in the room.
ReJoin(c) == JoinIn(c, {"joined", "detached"})

\* MSG_JOIN naming another of the ROOM_COUNT rooms on a connection that is
\* in this room: that room (which has a free slot) admits the new
\* PlayerState and current_room becomes that room; this room is not told.
JoinOther(c) ==
    /\ ~crashed
    /\ conn[c] = "joined"
    /\ SetRoom(Room)
    /\ conn' = [conn EXCEPT ![c] = "moved"]
    /\ reply' = <<c, "join_ok">>
    /\ last_input' = <<>>
    /\ UNCHANGED <<rounds, steps, inputs, last_d_tick>>

\* The direction names of MSG_INPUT.
DirNames == {"up", "down", "left", "right"}

DirOf(d) ==
    CASE d = "up" -> <<0, -1>>
      [] d = "down" -> <<0, 1>>
      [] d = "left" -> <<-1, 0>>
      [] d = "right" -> <<1, 0>>

\* The direction after an INPUT naming d without the reverse check.
InputDirection_NoCheck(old_dir, d) == DirOf(d)

\* "Prevent 180 degree reverse": the direction after an INPUT naming d.
InputDirection(old_dir, d) ==
    IF d = "up" /\ old_dir # <<0, 1>> THEN <<0, -1>>
    ELSE IF d = "down" /\ old_dir # <<0, -1>> THEN <<0, 1>>
    ELSE IF d = "left" /\ old_dir # <<1, 0>> THEN <<-1, 0>>
    ELSE IF d = "right" /\ old_dir # <<-1, 0>> THEN <<1, 0>>
    ELSE old_dir

\* MSG_INPUT ("if player and current_room and player.alive").  In state
\* "detached" the message changes an object the room does not hold.
Input(c, d, max_inputs) ==
    /\ ~crashed
    /\ inputs < max_inputs
    /\ inputs' = inputs + 1
    /\ last_input' = <<c, d>>
    /\ reply' = <<>>
    /\ conn[c] = "joined"
    /\ c \in Ids(players)
    /\ LET i == Index(players, c)
       IN /\ players[i].alive
          /\ players' = [players EXCEPT
                           ![i].direction = InputDirection(@, d)]
    /\ UNCHANGED <<status, host_id, food, occupied_set, tick_id, death_order,
                   countdown_deadline, pending_deaths, spawned, sent, crashed,
                   spectators, capacity, conn, rounds, steps, last_d_tick>>

\* "start_request" that starts whenever the room is WAITING, whoever sends it.
StartRequest_AnyPlayer(c, max_rounds) ==
    /\ ~crashed
    /\ conn[c] # "closed"
    /\ IF conn[c] \in {"joined", "detached"} /\ status = "WAITING"
       THEN /\ rounds < max_rounds
            /\ \E R2 \in start_game(Room) : SetRoom(R2)
            /\ rounds' = rounds + 1
       ELSE /\ SetRoom(Room)
            /\ UNCHANGED rounds
    /\ UNCHANGED <<conn, steps, inputs, last_d_tick>>
    /\ last_input' = <<c, "start_request">>
    /\ reply' = <<>>

\* "start_request": "if current_room and current_room.host_id ==
\* player.player_id and current_room.status == 'WAITING'", else nothing.
StartRequest(c, max_rounds) ==
    /\ ~crashed
    /\ conn[c] # "closed"
    /\ IF conn[c] \in {"joined", "detached"} /\ host_id = c
          /\ status = "WAITING"
       THEN /\ rounds < max_rounds
            /\ \E R2 \in start_game(Room) : SetRoom(R2)
            /\ rounds' = rounds + 1
       ELSE /\ SetRoom(Room)
            /\ UNCHANGED rounds
    /\ UNCHANGED <<conn, steps, inputs, last_d_tick>>
    /\ last_input' = <<c, "start_request">>
    /\ reply' = <<>>

\* MSG_EXIT or ConnectionClosed: the finally block of handler.
Close(c) ==
    /\ ~crashed
    /\ conn[c] # "closed"
    /\ IF conn[c] \in {"joined", "detached"}
       THEN SetRoom(remove_player(Room, c))
       ELSE SetRoom(Room)
    /\ conn' = [conn EXCEPT ![c] = "closed"]
    /\ last_d_tick' = [last_d_tick EXCEPT ![c] = 0]
    /\ last_input' = <<>>
    /\ reply' = <<>>
    /\ UNCHANGED <<rounds, steps, inputs>>

----------------------------------------------------------------------------
(* SnakeServer.game_loop: one pass over the room.  countdown_deadline is   *)
(* None, "armed" (time.time() + 5, not yet reached) or "due" (reached).    *)

\* The wall clock reaches an armed countdown_deadline.
CountdownElapses ==
    /\ ~crashed
    /\ countdown_deadline = "armed"
    /\ countdown_deadline' = "due"
    /\ UNCHANGED <<status, players, host_id, food, occupied_set, tick_id,
                   death_order, pending_deaths, spawned, sent, crashed,
                   spectators, capacity, conn, rounds, steps, inputs,
                   last_d_tick>>
    /\ last_input' = <<>>
    /\ reply' = <<>>

\* The auto-start logic without the test of room.status: it runs on a room
\* of any status.
AutoStart_AnyStatus(max_rounds) ==
    /\ ~crashed
    /\ LET human_count == Cardinality({i \in 1 .. Len(players) :
                                         ~players[i].is_bot})
           counted == counted_player_count(players)
       IN IF human_count > 0
          THEN IF counted >= capacity
                  \/ (counted >= 2 /\ countdown_deadline = "due")
               THEN /\ rounds < max_rounds
                    /\ \E R2 \in start_game(Room) : SetRoom(R2)
                    /\ rounds' = rounds + 1
               ELSE /\ counted >= 2
                    /\ countdown_deadline = None
                    /\ SetRoom([Room EXCEPT !.countdown_deadline = "armed"])
                    /\ UNCHANGED rounds
          ELSE /\ countdown_deadline # None
               /\ SetRoom([Room EXCEPT !.countdown_deadline = None])
               /\ UNCHANGED rounds
    /\ UNCHANGED <<conn, steps, inputs, last_d_tick>>
    /\ last_input' = <<>>
    /\ reply' = <<>>

\* "Auto Start Logic": the branch room.status == "WAITING".
AutoStart(max_rounds) ==
    /\ ~crashed
    /\ status = "WAITING"
    /\ LET human_count == Cardinality({i \in 1 .. Len(players) :
                                         ~players[i].is_bot})
           counted == counted_player_count(players)
       IN IF human_count > 0
          THEN IF counted >= capacity
                  \/ (counted >= 2 /\ countdown_deadline = "due")
               THEN /\ rounds < max_rounds
                    /\ \E R2 \in start_game(Room) : SetRoom(R2)
                    /\ rounds' = rounds + 1
               ELSE /\ counted >= 2
                    /\ countdown_deadline = None
                    /\ SetRoom([Room EXCEPT !.countdown_deadline = "armed"])
                    /\ UNCHANGED rounds
          ELSE /\ countdown_deadline # None
               /\ SetRoom([Room EXCEPT !.countdown_deadline = None])
               /\ UNCHANGED rounds
    /\ UNCHANGED <<conn, steps, inputs, last_d_tick>>
    /\ last_input' = <<>>
    /\ reply' = <<>>

\* Room.broadcast: the message goes to the websocket of connection c when the
\* room holds its player and the player is connected.
Receives(ps, c) == c \in Ids(ps) /\ Get(ps, c).connected

\* The step that led to room R2 broadcast a delta (it neither ended the game
\* before Phase 1 nor raised).
IsNewDelta(R2) == R2.sent.t = "d" /\ R2.sent.tick = tick_id + 1

\* The branch room.status == "RUNNING": room.step().
Step(max_tick, max_steps) ==
    /\ ~crashed
    /\ status = "RUNNING"
    /\ tick_id < max_tick
    /\ steps < max_steps
    /\ \E R2 \in step(Room) :
          /\ SetRoom(R2)
          /\ last_d_tick' = [c \in Conns |->
                               IF IsNewDelta(R2) /\ Receives(R2.players, c)
                               THEN R2.sent.tick ELSE last_d_tick[c]]
    /\ steps' = steps + 1
    /\ last_input' = <<>>
    /\ reply' = <<>>
    /\ UNCHANGED <<conn, rounds, inputs>>

----------------------------------------------------------------------------
(* Specifications.  Each bounds the environment: which connections exist,  *)
(* whether they send INPUT or close, and how many rounds, ticks and inputs *)
(* are explored (the max_ parameters of the actions).                      *)

\* Two connections that send no INPUT; MaxRounds rounds of at most MaxTick
\* ticks, MaxSteps ticks in all.  The host of a WAITING room is bot_0_0 in
\* every state these connections reach, so no start_request passes its guard
\* and every round starts from the game loop.
Next ==
    \/ \E c \in {"h1", "h2"} : Join(c)
    \/ \E c \in {"h1", "h2"} : Close(c)
    \/ CountdownElapses
    \/ AutoStart(MaxRounds)
    \/ Step(MaxTick, MaxSteps)

Spec == Init /\ [][Next]_vars

\* Room.broadcast addressed the last message sent to the websocket of
\* connection c: c was connected in the room when it was broadcast, and the
\* task that sends it may still be running.
Addressed(c) ==
    /\ Receives(players, c)
    /\ \/ sent.t = "d" /\ last_d_tick[c] = sent.tick
       \/ sent.t = "game_over" /\ last_d_tick[c] # 0
       \/ sent.t = "game_start" /\ status = "RUNNING" /\ c \notin spectators

\* Room._safe_send: ws.send raises in the task of a broadcast to connection
\* c; "except Exception: pass" drops the exception and the room stays as it
\* is.
SendFails(c) ==
    /\ ~crashed
    /\ conn[c] = "joined"
    /\ Addressed(c)
    /\ SetRoom(Room)
    /\ UNCHANGED <<conn, rounds, steps, inputs, last_d_tick>>
    /\ last_input' = <<c, "send_failed">>
    /\ reply' = <<>>

\* The connections of Spec, whose broadcast sends may fail.
SendNext ==
    \/ \E c \in {"h1", "h2"} : Join(c)
    \/ \E c \in {"h1", "h2"} : Close(c)
    \/ \E c \in {"h1", "h2"} : SendFails(c)
    \/ CountdownElapses
    \/ AutoStart(MaxRounds)
    \/ Step(MaxTick, MaxSteps)

SendSpec == Init /\ [][SendNext]_vars

\* A room of capacity WIDE_CAPACITY: h1 joins and leaves, h2 sends its JOIN
\* only while the room is not RUNNING; one round of MaxDuelTick ticks.
WideInit ==
    /\ SetRoomTo([InitRoom EXCEPT !.capacity = WIDE_CAPACITY])
    /\ conn = [c \in Conns |-> "new"]
    /\ rounds = 0
    /\ steps = 0
    /\ inputs = 0
    /\ last_d_tick = [c \in Conns |-> 0]
    /\ last_input = <<>>
    /\ reply = <<>>

WideNext ==
    \/ Join("h1")
    \/ Close("h1")
    \/ status # "RUNNING" /\ Join("h2")
    \/ CountdownElapses
    \/ AutoStart(1)
    \/ Step(MaxDuelTick, MaxDuelTick)

WideSpec == WideInit /\ [][WideNext]_vars

\* The outputs of the policy: "0: Straight, 1: Right turn, 2: Left turn".
MoveNames == {"straight", "right_turn", "left_turn"}

MoveIdx(name) ==
    CASE name = "straight" -> 0
      [] name = "right_turn" -> 1
      [] name = "left_turn" -> 2

\* p.get_move(room) of the bot players[i] with the policy output named
\* name; last_input records the bot and the output.
BotPolicy(i, name, max_turns) ==
    /\ steps < max_turns
    /\ players[i].is_bot
    /\ SetRoom([Room EXCEPT
                  !.players[i].direction = get_move(@, MoveIdx(name))])
    /\ steps' = steps + 1
    /\ last_input' = <<players[i].id, name>>
    /\ reply' = <<>>
    /\ UNCHANGED <<conn, rounds, inputs, last_d_tick>>

\* The two bots of the room in any of the four directions, and MaxTurns
\* calls of get_move with any policy output.
PolicyInit ==
    /\ \E d0, d1 \in SeqToSet(clock_wise) :
          SetRoomTo([InitRoom EXCEPT !.players[1].direction = d0,
                                     !.players[2].direction = d1])
    /\ conn = [c \in Conns |-> "new"]
    /\ rounds = 0
    /\ steps = 0
    /\ inputs = 0
    /\ last_d_tick = [c \in Conns |-> 0]
    /\ last_input = <<>>
    /\ reply = <<>>

PolicyNext == \E i \in 1 .. 2, name \in MoveNames : BotPolicy(i, name, MaxTurns)

PolicySpec == PolicyInit /\ [][PolicyNext]_vars

\* The connections of Spec, where h1 may JOIN another room after this one;
\* one round.
MoveNext ==
    \/ \E c \in {"h1", "h2"} : Join(c)
    \/ \E c \in {"h1", "h2"} : Close(c)
    \/ JoinOther("h1")
    \/ CountdownElapses
    \/ AutoStart(1)
    \/ Step(MaxTick, MaxSteps)

MoveSpec == Init /\ [][MoveNext]_vars

\* Three connections that come one at a time (a JOIN is sent only while no
\* other connection is in the room) and send no INPUT; MaxRounds rounds.
LobbyNext ==
    \/ \E c \in Conns : (\A o \in Conns \ {c} : conn[o] # "joined") /\ Join(c)
    \/ \E c \in Conns : Close(c)
    \/ CountdownElapses
    \/ AutoStart(MaxRounds)
    \/ Step(MaxTick, MaxSteps)

LobbySpec == Init /\ [][LobbyNext]_vars

\* The room after a round that start_game began with no connected human
\* (the only humans in players had left during the round before): both bots
\* were set to alive = False, connected = False, the humans were pruned, the
\* first step found nobody alive and end_game left the room IDLE without a
\* host.  LobbySpec reaches this room; the connections that led to it are
\* closed and their ids (fresh uuids) occur nowhere in it.
BenchedRoom ==
    [InitRoom EXCEPT
       !.status = "IDLE",
       !.host_id = None,
       !.players = [i \in 1 .. Len(InitRoom.players) |->
                      [InitRoom.players[i] EXCEPT !.alive = FALSE,
                                                  !.connected = FALSE]],
       !.tick_id = 1,
       !.food = <<<<2, 1>>, <<3, 1>>, <<3, 2>>>>,
       !.sent = [NoMsg EXCEPT !.t = "game_over", !.tick = 1]]

BenchedInit ==
    /\ SetRoomTo(BenchedRoom)
    /\ conn = [c \in Conns |-> "new"]
    /\ rounds = 0
    /\ steps = 0
    /\ inputs = 0
    /\ last_d_tick = [c \in Conns |-> 0]
    /\ last_input = <<>>
    /\ reply = <<>>

\* Two connections and a room whose bots are both benched, so that a human
\* is the host and the counted players are the humans alone; one round.
BenchedNext ==
    \/ \E c \in {"h1", "h2"} : Join(c)
    \/ \E c \in {"h1", "h2"} : Close(c)
    \/ \E c \in {"h1", "h2"} : StartRequest(c, 1)
    \/ CountdownElapses
    \/ AutoStart(1)
    \/ Step(MaxTick, MaxSteps)

BenchedSpec == BenchedInit /\ [][BenchedNext]_vars

\* BenchedSpec with the scheduling of game_loop (see FairSpec).
BenchedFairSpec ==
    /\ BenchedSpec
    /\ WF_vars(CountdownElapses)
    /\ WF_vars(AutoStart(1))

\* One connection, one round of MaxDuelTick ticks, MaxInputs inputs.
DuelNext ==
    \/ Join("h1")
    \/ \E d \in DirNames : Input("h1", d, MaxInputs)
    \/ Close("h1")
    \/ CountdownElapses
    \/ AutoStart(1)
    \/ Step(MaxDuelTick, MaxDuelTick)

DuelSpec == Init /\ [][DuelNext]_vars

\* One connection that neither sends INPUT nor closes, one round of
\* MaxGrowTick ticks.
GrowNext ==
    \/ Join("h1")
    \/ CountdownElapses
    \/ AutoStart(1)
    \/ Step(MaxGrowTick, MaxGrowTick)

GrowSpec == Init /\ [][GrowNext]_vars

\* GrowSpec with the scheduling of game_loop: the loop never stops passing
\* over the room and the wall clock advances, so a pass that can arm, start
\* or step is eventually made and an armed deadline is eventually reached.
\* Nothing obliges a client to send a JOIN.
FairSpec ==
    /\ GrowSpec
    /\ WF_vars(CountdownElapses)
    /\ WF_vars(AutoStart(1))
    /\ WF_vars(Step(MaxGrowTick, MaxGrowTick))

\* One connection that joins and may close at any moment, never sending
\* INPUT; one round of MaxChaseTick ticks, long enough for a revived bot to
\* grow and come back to its own tail.
ChaseNext ==
    \/ Join("h1")
    \/ Close("h1")
    \/ CountdownElapses
    \/ AutoStart(1)
    \/ Step(MaxChaseTick, MaxChaseTick)

ChaseSpec == Init /\ [][ChaseNext]_vars

----------------------------------------------------------------------------
(* Properties.                                                             *)

\* The cells of the bodies of the alive players.
AliveCells(ps) ==
    UNION {SeqToSet(ps[i].body) : i \in {j \in 1 .. Len(ps) : ps[j].alive}}

\* A transition that is a call of step() which broadcast a delta.
StepDone ==
    /\ tick_id' = tick_id + 1
    /\ status' = "RUNNING"
    /\ ~crashed'

\* The alive players, as indexes of the players map.
AliveIdx(ps) == {i \in 1 .. Len(ps) : ps[i].alive}

\* No cell is in the bodies of two alive players.
BodiesDisjoint(ps) ==
    \A i, j \in AliveIdx(ps) :
        i # j => SeqToSet(ps[i].body) \cap SeqToSet(ps[j].body) = {}

\* C1: after every step, occupied_set is exactly the union of the cells of
\* the bodies of the alive players.  Stated for the steps that begin with
\* occupied_set equal to that union and the alive bodies pairwise disjoint,
\* so that a violation is the step's own doing.
C1_OccupiedIsAliveCells ==
    [][(/\ occupied_set = AliveCells(players)
        /\ BodiesDisjoint(players)
        /\ StepDone) => occupied_set' = AliveCells(players')]_vars

\* C2: a player id appears in death_order at most once.
C2_DeathOrderOnce ==
    \A i, j \in 1 .. Len(death_order) :
        i # j => death_order[i] # death_order[j]

\* C3: the counted player count (all players except benched bots) is at
\* most the room capacity.
C3_CountedWithinCapacity == counted_player_count(players) <= ROOM_CAPACITY

\* C4: after every step, every alive player has a non-empty body.
C4_AliveHasBody ==
    [][StepDone => \A i \in AliveIdx(players') : players'[i].body # <<>>]_vars

\* The ordered body b holds no cell twice.
NoRepeat(b) == \A i, j \in 1 .. Len(b) : i # j => b[i] # b[j]

\* C5: after every step, the body of every alive player holds no cell
\* twice and the set of its cells is body_set.
C5_BodyMatchesBodySet ==
    [][StepDone => \A i \in AliveIdx(players') :
                      /\ NoRepeat(players'[i].body)
                      /\ SeqToSet(players'[i].body) = players'[i].body_set]_vars

\* C6: in a RUNNING room (after start_game and after every step) no food
\* cell is in occupied_set.
C6_FoodNotOccupied ==
    status = "RUNNING" => SeqToSet(food) \cap occupied_set = {}

\* The ids of the alive players.
AliveIds(ps) == {ps[i].id : i \in AliveIdx(ps)}

\* A transition that is a call of start_game.
StartDone == status = "WAITING" /\ status' = "RUNNING"

\* A transition that is a call of step() which called end_game (it
\* broadcast game_over); the ranking is built from the players and the
\* death_order of its first state.
EndDone == status = "RUNNING" /\ sent'.t = "game_over"

\* C7: after start_game, after every step and when end_game builds the
\* ranking, death_order together with the ids of the alive players is
\* exactly the set of players that were given a body in this round.
C7_DeathOrderAccountsForSpawned ==
    [][/\ (StartDone \/ StepDone) =>
            SeqToSet(death_order') \cup AliveIds(players') = spawned'
       /\ EndDone =>
            SeqToSet(death_order) \cup AliveIds(players) = spawned]_vars

\* No human in the players map is connected.
NoHumanConnected(ps) ==
    \A i \in 1 .. Len(ps) : ps[i].is_bot \/ ~ps[i].connected

\* C8: when every human has disconnected, the room comes to a state in
\* which a new JOIN is accepted.  The game loop leaves an IDLE room alone
\* and no message but an accepted JOIN changes its status or its players
\* map, so an IDLE room without a connected human must accept a JOIN:
\* its counted player count is below the capacity.
C8_IdleRoomAcceptsJoin ==
    (status = "IDLE" /\ NoHumanConnected(players))
        => counted_player_count(players) < ROOM_CAPACITY

\* A room that is IDLE, full and without a connected human.
RoomFullAndDeserted ==
    /\ status = "IDLE"
    /\ NoHumanConnected(players)
    /\ counted_player_count(players) >= ROOM_CAPACITY

\* No step of the room or of a connection leaves such a state.
DesertedForever == [][RoomFullAndDeserted => RoomFullAndDeserted']_vars

\* C9: when a round ends (end_game), the status becomes WAITING if any
\* player remains in the room and IDLE only if none remains.
C9_EndGameStatus ==
    [][EndDone => status' = (IF players' = <<>> THEN "IDLE" ELSE "WAITING")]_vars

\* C10: host_id is null exactly when the players map is empty, and
\* otherwise it is the id of a player in the players map.
C10_HostIsAPlayer ==
    /\ host_id = None <=> players = <<>>
    /\ host_id # None => host_id \in Ids(players)

\* The cell the head of players[i] moves to in this step: its head before
\* the step plus its direction after get_move (step keeps the direction it
\* moved with, and the index of every player).
NextHead(i) ==
    <<players[i].body[1][1] + players'[i].direction[1],
      players[i].body[1][2] + players'[i].direction[2]>>

\* players[i] was processed as dying by this step.
DiedInStep(i) ==
    /\ ~players'[i].alive
    /\ players'[i].eliminated
    /\ players'[i].body = <<>>
    /\ players'[i].body_set = {}
    /\ players[i].id \in
          SeqToSet(SubSeq(death_order', Len(death_order) + 1,
                          Len(death_order')))
    /\ \A k \in 1 .. Len(sent'.moves) :
          sent'.moves[k].id = players[i].id => sent'.moves[k].kind = "dead"

\* C11: two distinct alive snakes whose next_head cells coincide in a tick
\* are both dead after that step (not alive, eliminated, in death_order,
\* bodies cleared) and neither commits its move.
C11_HeadOnBothDie ==
    [][StepDone =>
         \A i, j \in AliveIdx(players) :
            (i # j /\ NextHead(i) = NextHead(j))
               => (DiedInStep(i) /\ DiedInStep(j))]_vars

\* A delta that reports two head-on deaths.
C11_Witness ==
    /\ sent.t = "d"
    /\ \E k, l \in 1 .. Len(sent.moves) :
          /\ k # l
          /\ sent.moves[k].kind = "dead" /\ sent.moves[k].reason = "head-on"
          /\ sent.moves[l].kind = "dead" /\ sent.moves[l].reason = "head-on"

\* The last cell of the body of players[i] before the step.
OwnTail(i) == players[i].body[Len(players[i].body)]

\* C12: an alive snake whose next_head is its own current tail cell, and
\* which is not dying for another reason (not disconnected, no other snake
\* heading for the same cell), is alive after the step with the body
\* next_head followed by the old body without its last cell.
C12_TailChaseShifts ==
    [][StepDone =>
         \A i \in AliveIdx(players) :
            (/\ NextHead(i) = OwnTail(i)
             /\ players[i].id \notin pending_deaths
             /\ \A j \in AliveIdx(players) \ {i} : NextHead(j) # NextHead(i))
               => /\ players'[i].alive
                  /\ players'[i].body =
                        <<NextHead(i)>> \o Front(players[i].body)]_vars

\* The ids appended to death_order by the step, i.e. the ids Phase 4
\* processed as dying.
ProcessedAsDying ==
    SeqToSet(SubSeq(death_order', Len(death_order) + 1, Len(death_order')))

\* C13: every score is non-negative in every reachable state, and in a step
\* that processes a player as dying the player's score becomes the floor of
\* half its score before the step.
C13_ScoreHalvedOnDeath ==
    /\ [](\A i \in 1 .. Len(players) : players[i].score >= 0)
    /\ [][StepDone =>
            \A i \in 1 .. Len(players) :
               players[i].id \in ProcessedAsDying
                 => players'[i].score = players[i].score \div 2]_vars

\* A delta reports the death of a player that keeps a positive score, so it
\* died with a score of at least two.
C13_Witness ==
    /\ sent.t = "d"
    /\ \E i \in 1 .. Len(players), k \in 1 .. Len(sent.moves) :
          /\ sent.moves[k].kind = "dead"
          /\ sent.moves[k].id = players[i].id
          /\ ~players[i].alive
          /\ players[i].score >= 1

\* C14: after start_game and after every step every body cell of every alive
\* player lies inside the map.
C14_AliveBodiesInBounds ==
    [][(StartDone \/ StepDone) =>
          \A i \in AliveIdx(players') :
             \A k \in 1 .. Len(players'[i].body) :
                InBounds(players'[i].body[k])]_vars

\* A step has left an alive snake with its head on the last column or the
\* last row of the map, or on the first ones.
C14_Witness ==
    /\ sent.t = "d"
    /\ \E i \in AliveIdx(players) :
          /\ players[i].body # <<>>
          /\ \/ players[i].body[1][1] \in {0, MAP_WIDTH - 1}
             \/ players[i].body[1][2] \in {0, MAP_HEIGHT - 1}

\* The step sends its delta to the websocket of connection c.
DeltaSentTo(c) ==
    /\ StepDone
    /\ sent'.t = "d" /\ sent'.tick = tick_id'
    /\ Receives(players', c)

\* C15: the ticks of the delta messages sent to a connected client are
\* strictly increasing over the whole life of its connection, rounds that
\* follow one another included.
C15_DeltaTicksIncrease ==
    [][\A c \in Conns :
          (DeltaSentTo(c) /\ last_d_tick[c] # 0)
             => sent'.tick > last_d_tick[c]]_vars

\* The alive players the step does not process as dying.
Survivors == {i \in AliveIdx(players) : players[i].id \notin ProcessedAsDying}

\* The surviving snakes whose next_head was a food cell.
Eaters == {i \in Survivors : NextHead(i) \in SeqToSet(food)}

\* food without the cells the surviving snakes moved onto.
FoodKept ==
    SelectSeq(food, LAMBDA c : c \notin {NextHead(i) : i \in Eaters})

\* C16: in a step that broadcasts a delta, food loses one cell per surviving
\* snake whose next_head was a food cell and nothing else (so a snake that
\* dies in the tick consumes none), the cells behind the kept ones are the
\* ones spawn_food added, and food holds no cell twice.
C16_FoodConservation ==
    [][(StepDone /\ sent'.t = "d" /\ sent'.tick = tick_id') =>
          /\ NoRepeat(food')
          /\ Len(FoodKept) = Len(food) - Cardinality(Eaters)
          /\ Len(food') >= Len(FoodKept)
          /\ SubSeq(food', 1, Len(FoodKept)) = FoodKept]_vars

\* A delta reports a snake that moved onto a food candidate cell without
\* freeing its tail, the cell is no longer in food, and food is out of the
\* order start_game gave it: the snake ate, and spawn_food has appended a
\* cell behind the ones that were kept.
C16_Witness ==
    /\ sent.t = "d"
    /\ \E k \in 1 .. Len(sent.moves) :
          /\ sent.moves[k].kind = "move"
          /\ sent.moves[k].tail_remove = NoCell
          /\ sent.moves[k].head_add \in FoodCandidates \ SeqToSet(food)
    /\ \E k \in 1 .. Len(food) - 1 : CellLess(food[k + 1], food[k])

\* The direction opposite to dir.
Opposite(dir) == <<0 - dir[1], 0 - dir[2]>>

\* The handler has just handled an INPUT of connection c naming d.
InputHandled(c, d) == inputs' = inputs + 1 /\ last_input' = <<c, d>>

\* C17: an INPUT naming the 180-degree reverse of the current direction of an
\* alive player leaves the direction as it was and changes nothing else in
\* the room.
C17_ReverseInputIgnored ==
    [][\A c \in Conns, d \in DirNames :
          (/\ InputHandled(c, d)
           /\ c \in Ids(players)
           /\ Get(players, c).alive
           /\ DirOf(d) = Opposite(Get(players, c).direction))
             => UNCHANGED <<status, players, host_id, food, occupied_set,
                            tick_id, death_order, countdown_deadline,
                            pending_deaths>>]_vars

\* The last message handled was an INPUT of an alive player that named the
\* reverse of the direction the player has after it.
C17_Witness ==
    \E c \in Conns, d \in DirNames :
       /\ last_input = <<c, d>>
       /\ c \in Ids(players)
       /\ Get(players, c).alive
       /\ DirOf(d) = Opposite(Get(players, c).direction)

\* The handler has just handled a JOIN of connection c.
JoinHandled(c) == reply' # <<>> /\ reply'[1] = c /\ conn[c] = "new"

\* C18: a JOIN to a room whose counted player count is at least the capacity
\* is answered ROOM_FULL and leaves the room as it was (players, host_id,
\* status and the rest), and the connection stays unbound.
C18_RoomFullRejects ==
    [][\A c \in Conns :
          (JoinHandled(c) /\ counted_player_count(players) >= ROOM_CAPACITY)
             => /\ reply' = <<c, "ROOM_FULL">>
                /\ conn'[c] = "new"
                /\ UNCHANGED <<status, players, host_id, food, occupied_set,
                               tick_id, death_order, countdown_deadline,
                               pending_deaths>>]_vars

\* A connection was answered ROOM_FULL by a room that counts at least
\* ROOM_CAPACITY players, and is not in the room.
C18_Witness ==
    \E c \in Conns :
       /\ reply = <<c, "ROOM_FULL">>
       /\ counted_player_count(players) >= ROOM_CAPACITY
       /\ conn[c] = "new"
       /\ c \notin Ids(players)

\* The step has broadcast a delta.
DeltaBroadcast == sent'.t = "d" /\ sent'.tick = tick_id + 1

\* C19: a player that JOINs while the room is RUNNING is admitted not alive
\* and without a body, is sent every later delta of the round while it is
\* connected, and its id is in no moves entry of any delta of the rest of
\* the round, whatever it does afterwards.
C19_SpectatorNeverInMoves ==
    [][/\ \A c \in Conns :
            (reply' = <<c, "join_ok">> /\ conn[c] = "new"
               /\ status = "RUNNING")
               => /\ c \in Ids(players')
                  /\ ~Get(players', c).alive
                  /\ Get(players', c).body = <<>>
       /\ DeltaBroadcast =>
            /\ \A c \in spectators \cap Conns :
                  Receives(players, c) => last_d_tick'[c] = sent'.tick
            /\ \A k \in 1 .. Len(sent'.moves) :
                  sent'.moves[k].id \notin spectators]_vars

\* C20: when the connection of a player closes (or sends EXIT) while the
\* room is RUNNING, the player stays in players and its id is put in
\* pending_deaths; the next step that broadcasts a delta leaves it not alive,
\* eliminated and without body and reports a dead move for it whose reason
\* is "disconnect".
C20_DisconnectDeath ==
    [][/\ \A c \in Conns :
            (conn[c] = "joined" /\ conn'[c] = "closed" /\ status = "RUNNING")
               => (c \in Ids(players') /\ c \in pending_deaths')
       /\ DeltaBroadcast =>
            \A pid \in pending_deaths \cap Ids(players) :
               /\ ~Get(players', pid).alive
               /\ Get(players', pid).eliminated
               /\ Get(players', pid).body = <<>>
               /\ \E k \in 1 .. Len(sent'.moves) :
                     /\ sent'.moves[k].id = pid
                     /\ sent'.moves[k].kind = "dead"
                     /\ sent'.moves[k].reason = "disconnect"]_vars

\* remove_player has just run for the player of connection c.
Removed(c) == conn[c] = "joined" /\ conn'[c] = "closed"

\* C21: remove_player on a WAITING room deletes the player from players at
\* once, and if no counted player remains afterwards the status becomes
\* IDLE, also when benched bots are still in players.
C21_WaitingRemoveToIdle ==
    [][\A c \in Conns :
          (Removed(c) /\ status = "WAITING")
             => /\ c \notin Ids(players')
                /\ counted_player_count(players') = 0 => status' = "IDLE"]_vars

\* C22: a WAITING room that holds a counted player count of at least 2 (bots
\* that are not benched count) and keeps it starts a round: the countdown is
\* armed, elapses, and the room goes RUNNING (at once when the count is at
\* the capacity).
C22_CountedPairStarts ==
    (status = "WAITING" /\ counted_player_count(players) >= 2 /\ rounds = 0)
       ~> (status = "RUNNING" \/ counted_player_count(players) < 2)

\* C23: when the counted player count of a WAITING room has dropped below 2
\* while a countdown is armed, the game loop disarms the countdown
\* (countdown_deadline cleared), unless the count is back at 2 or the room
\* has left WAITING before it does.
C23_CountdownDisarmed ==
    (status = "WAITING" /\ counted_player_count(players) < 2
       /\ countdown_deadline # None)
       ~> (countdown_deadline = None \/ counted_player_count(players) >= 2
             \/ status # "WAITING")

\* The handler has just handled a start_request of connection c.
StartRequestHandled(c) == last_input' = <<c, "start_request">>

\* C24: a start_request starts a round when it comes from the connection
\* whose player id is host_id and the room is WAITING (at once, whatever the
\* counted player count), and otherwise leaves the room as it was.
C24_StartRequestByHost ==
    [][\A c \in Conns :
          StartRequestHandled(c) =>
             IF conn[c] = "joined" /\ host_id = c /\ status = "WAITING"
             THEN status' = "RUNNING" /\ sent'.t = "game_start"
             ELSE UNCHANGED <<status, players, host_id, food, occupied_set,
                              tick_id, death_order, countdown_deadline,
                              pending_deaths, sent>>]_vars

\* The round was started by the start_request of the host while it was the
\* only human of the room.
C24_Witness ==
    \E c \in Conns :
       /\ last_input = <<c, "start_request">>
       /\ status = "RUNNING" /\ sent.t = "game_start"
       /\ \A i \in 1 .. Len(players) : ~players[i].is_bot => players[i].id = c

\* The indices of the benched bots of ps.
BenchedIdx(ps) == {i \in 1 .. Len(ps) : is_benched_bot(ps[i])}

\* The step processes every alive human as dead (there is one), a bot that
\* is alive stays out of the dying ones, and a benched bot exists.
LastHumanDies ==
    /\ \E i \in AliveIdx(players) : ~players[i].is_bot
    /\ \A i \in AliveIdx(players) :
          ~players[i].is_bot => players[i].id \in ProcessedAsDying
    /\ \E i \in AliveIdx(players) :
          players[i].is_bot /\ players[i].id \notin ProcessedAsDying
    /\ BenchedIdx(players) # {}

\* Bot b was revived by the step: alive, with a horizontal body of three
\* cells heading right that lies in occupied_set, reported by the one
\* revived move of the delta.
RevivedInStep(b) ==
    /\ players'[b].alive
    /\ Len(players'[b].body) = 3
    /\ players'[b].body = start_body(players'[b].body[1])
    /\ players'[b].direction = <<1, 0>>
    /\ SeqToSet(players'[b].body) \subseteq occupied_set'
    /\ \E k \in 1 .. Len(sent'.moves) :
          /\ sent'.moves[k].kind = "revived"
          /\ sent'.moves[k].id = players[b].id
          /\ sent'.moves[k].body = players'[b].body
          /\ \A l \in 1 .. Len(sent'.moves) :
                sent'.moves[l].kind = "revived" => l = k

\* C25: in the step that processes the last alive human as dead while a bot
\* stays alive and a benched bot exists, exactly one benched bot is revived
\* (alive, three-cell horizontal body heading right, cells in occupied_set,
\* one revived move with that body in the delta of the tick) and the round
\* goes on.
C25_LastHumanRevivesBot ==
    [][(DeltaBroadcast /\ LastHumanDies) =>
          /\ status' = "RUNNING"
          /\ \E b \in BenchedIdx(players) :
                /\ RevivedInStep(b)
                /\ \A o \in BenchedIdx(players) \ {b} : ~players'[o].alive]_vars

\* The ids of the alive players of ps, in the order of the players map.
AliveIdSeq(ps) ==
    LET a == SelectSeq(ps, LAMBDA p : p.alive)
    IN [i \in 1 .. Len(a) |-> a[i].id]

\* C26: the ranks of every GAME_OVER list the alive players first, then the
\* dead players in reverse death_order, with the rank values 1, 2, ..., n
\* and no player id listed more than once.
C26_RanksAliveThenDead ==
    [][EndDone =>
          LET rk == sent'.ranks
              ids == AliveIdSeq(players)
                       \o SelectSeq(Reverse(death_order),
                                    LAMBDA pid : pid \in Ids(players))
          IN /\ Len(rk) = Len(ids)
             /\ \A i \in 1 .. Len(rk) : rk[i].id = ids[i] /\ rk[i].rank = i
             /\ \A i, j \in 1 .. Len(rk) : rk[i].id = rk[j].id => i = j]_vars

\* The participants of the round that ends: the alive players and the
\* players named in death_order.
Participants(ps, order) ==
    {i \in 1 .. Len(ps) : ps[i].alive \/ ps[i].id \in SeqToSet(order)}

\* C27: the winner_id of every GAME_OVER is the participant with the
\* highest score at the end of the round, a tie going to the smallest
\* username and then to the smallest player id; it is null only when the
\* round has no participant.
C27_WinnerHighestScore ==
    [][EndDone =>
          LET parts == Participants(players, death_order)
          IN IF parts = {} THEN sent'.winner_id = None
             ELSE \E w \in parts :
                    /\ sent'.winner_id = players[w].id
                    /\ \A q \in parts :
                          /\ players[w].score >= players[q].score
                          /\ players[q].score = players[w].score =>
                                Pos(NameOrder, players[w].username)
                                  <= Pos(NameOrder, players[q].username)
                          /\ (/\ players[q].score = players[w].score
                              /\ players[q].username = players[w].username)
                               => Pos(IdOrder, players[w].id)
                                    <= Pos(IdOrder, players[q].id)]_vars

\* A GAME_OVER whose winner is not the first of the ranking and has the
\* score of the first: the tie was broken by the username.
C27_Witness ==
    /\ sent.t = "game_over"
    /\ Len(sent.ranks) >= 2
    /\ sent.winner_id # sent.ranks[1].id
    /\ \E k \in 2 .. Len(sent.ranks) :
          /\ sent.ranks[k].id = sent.winner_id
          /\ sent.ranks[k].score = sent.ranks[1].score

\* C28: after a remove_player that leaves the room with no connected
\* human, every bot of the room has score 0, whatever the room status is.
C28_BotScoresResetOnLastLeave ==
    [][\A c \in Conns : (Removed(c) /\ NoHumanConnected(players')) =>
          \A i \in 1 .. Len(players') :
              players'[i].is_bot => players'[i].score = 0]_vars

\* The only human has just left a RUNNING round (its death is still
\* pending) in which an alive bot had grown by eating: the bots' scores
\* are 0.
C28_Witness ==
    /\ status = "RUNNING"
    /\ NoHumanConnected(players)
    /\ \E c \in Conns : conn[c] = "closed" /\ c \in pending_deaths
    /\ \E i \in AliveIdx(players) :
          players[i].is_bot /\ Len(players[i].body) > 3
    /\ \A i \in 1 .. Len(players) :
          players[i].is_bot => players[i].score = 0

\* The send of a broadcast to connection c failed and nothing was handled
\* since.
SendFailed(c) == last_input = <<c, "send_failed">>

\* A pass of the game loop over a WAITING room that arms or clears the
\* countdown, sees it elapse, or starts the round.
WaitingPass ==
    /\ status = "WAITING"
    /\ countdown_deadline' # countdown_deadline \/ StartDone

\* C29: when a broadcast send to a connection fails, the player of the
\* connection is treated as disconnected at the next tick boundary: the
\* next step of a RUNNING room puts it in pending_deaths (or processes it
\* as dying), the next pass over a WAITING room removes it from players.
C29_FailedSendDisconnects ==
    [][\A c \in Conns : SendFailed(c) =>
          /\ DeltaBroadcast =>
                c \in pending_deaths' \/ c \in ProcessedAsDying
          /\ WaitingPass => c \notin Ids(players')]_vars

\* C30: in a step that broadcasts a delta, a surviving snake gains exactly 1
\* score and 1 length if and only if its next_head was a food cell at the
\* start of the tick; every other surviving snake, one that steps onto its
\* own vacated tail cell included, keeps its score and its length, and
\* spawn_food is not run when no surviving snake ate (food stays as it was).
C30_ScoreOnlyByFood ==
    [][DeltaBroadcast =>
          /\ \A i \in Survivors :
                IF i \in Eaters
                THEN /\ players'[i].score = players[i].score + 1
                     /\ Len(players'[i].body) = Len(players[i].body) + 1
                ELSE /\ players'[i].score = players[i].score
                     /\ Len(players'[i].body) = Len(players[i].body)
          /\ Eaters = {} => food' = food]_vars

\* An end condition of the round holds for the players ps: nobody is alive,
\* or the "Game Over logic" of step would end the round.
EndCondition(ps) == (\A i \in 1 .. Len(ps) : ~ps[i].alive) \/ EndsAtTop(ps)

\* C31: the end conditions are evaluated after Phase 4 too: when the deaths
\* processed in a step make an end condition true, that same step
\* broadcasts GAME_OVER and the room leaves RUNNING.
C31_EndCheckedAfterPhase4 ==
    [][(/\ status = "RUNNING"
        /\ tick_id' = tick_id + 1
        /\ ~crashed'
        /\ ProcessedAsDying # {}
        /\ EndCondition(players'))
          => status' # "RUNNING" /\ sent'.t = "game_over"]_vars

\* The AI-showdown condition for the players ps: no alive human, exactly
\* one alive bot and at least one benched bot.
AIShowdown(ps) ==
    /\ \A i \in AliveIdx(ps) : ps[i].is_bot
    /\ Cardinality(AliveIdx(ps)) = 1
    /\ BenchedIdx(ps) # {}

\* C32: at the top of a tick step ends the round exactly when no player is
\* alive, or when the counted player count is at least 2, at most one
\* player is alive and the AI-showdown condition does not hold; a round
\* whose counted player count is 1 is not ended while that player is alive.
C32_EndAtTopByCountedPlayers ==
    [][(status = "RUNNING" /\ tick_id' = tick_id + 1) =>
          ((sent'.t = "game_over" /\ status' # "RUNNING")
             <=> \/ AliveIdx(players) = {}
                 \/ /\ counted_player_count(players) >= 2
                    /\ Cardinality(AliveIdx(players)) <= 1
                    /\ ~AIShowdown(players))]_vars

\* The transition is a message or a close handled by the handler (the game
\* loop leaves conn alone and clears reply and last_input).
ByHandler == conn' # conn \/ reply' # <<>> \/ last_input' # <<>>

\* C33: the status of a room changes only from IDLE to WAITING (a player
\* is added), from WAITING to IDLE (the last player leaves), from WAITING
\* to RUNNING (start_game) and from RUNNING through FINISHED to IDLE or
\* WAITING (end_game); a room never goes from IDLE to RUNNING, and step
\* and the auto-start logic change no field of a room that is IDLE.
C33_StatusEdges ==
    [][/\ status' # status =>
            \/ /\ status = "IDLE" /\ status' = "WAITING"
               /\ \E c \in Conns : reply' = <<c, "join_ok">>
                                      /\ c \in Ids(players')
            \/ /\ status = "WAITING" /\ status' = "IDLE"
               /\ players' = <<>>
            \/ /\ status = "WAITING" /\ status' = "RUNNING"
               /\ sent'.t = "game_start"
            \/ /\ status = "RUNNING" /\ status' \in {"IDLE", "WAITING"}
               /\ sent'.t = "game_over"
       /\ (status = "IDLE" /\ ~ByHandler) =>
            /\ UNCHANGED <<status, players, host_id, food, occupied_set,
                           tick_id, death_order, pending_deaths, sent>>
            /\ (countdown_deadline' = None) <=> (countdown_deadline = None)]_vars

\* A start_request has just been handled in a room that is IDLE after a
\* round, with its sender in the room: the room is still IDLE.
C33_Witness ==
    /\ status = "IDLE"
    /\ sent.t = "game_over"
    /\ \E c \in Conns : /\ last_input = <<c, "start_request">>
                         /\ conn[c] = "joined"
                         /\ c \in Ids(players)

\* The bots of ps that are not on the bench (alive=false, connected=false,
\* eliminated=false).
BotsOffBench(ps) ==
    {i \in 1 .. Len(ps) :
        ps[i].is_bot /\ (ps[i].alive \/ ps[i].connected \/ ps[i].eliminated)}

\* C34: after a successful JOIN of a human into a room that is not RUNNING
\* (IDLE or WAITING, whatever the number of humans in it), at most one bot
\* of the room is alive and every other bot is benched.
C34_JoinBenchesAllButOneBot ==
    [][\A c \in Conns :
          (JoinHandled(c) /\ reply' = <<c, "join_ok">> /\ status # "RUNNING")
             => /\ Cardinality({i \in AliveIdx(players') :
                                  players'[i].is_bot}) <= 1
                /\ Cardinality(BotsOffBench(players')) <= 1]_vars

\* The quarter turn of direction d with the clock (right, down, left, up
\* follow each other; y grows downwards) and against it.
TurnRight(d) == <<0 - d[2], d[1]>>
TurnLeft(d) == <<d[2], 0 - d[1]>>

\* C35: for every direction of a bot and every policy output, get_move
\* keeps the direction (0), sets the next direction clockwise in right,
\* down, left, up (1) or the previous one (2); the direction after get_move
\* is never the reverse of the direction before it.
C35_GetMoveTurns ==
    [][\A i \in 1 .. Len(players), name \in MoveNames :
          (steps' = steps + 1 /\ last_input' = <<players[i].id, name>>) =>
             /\ name = "straight" =>
                   players'[i].direction = players[i].direction
             /\ name = "right_turn" =>
                   players'[i].direction = TurnRight(players[i].direction)
             /\ name = "left_turn" =>
                   players'[i].direction = TurnLeft(players[i].direction)
             /\ players'[i].direction # Opposite(players[i].direction)]_vars

\* get_move has just turned bot_0_0 left from right, the first entry of the
\* clockwise list, to up, its last entry.
C35_Witness ==
    /\ last_input = <<Bot0, "left_turn">>
    /\ steps = 1
    /\ players[1].direction = <<0, -1>>

\* C36: after start_game and after every step of a RUNNING room, the bodies
\* of distinct alive snakes are pairwise disjoint, the three-cell bodies
\* placed by start_game and by the revival of a benched bot included.
C36_AliveBodiesDisjoint ==
    [][(StartDone \/ StepDone) => BodiesDisjoint(players')]_vars

\* The direction of the last committed move of players[i]: from its neck
\* cell to its head cell (right for a body start_game has just placed).
CommittedDirection(i) ==
    <<players[i].body[1][1] - players[i].body[2][1],
      players[i].body[1][2] - players[i].body[2][2]>>

\* C37: whatever INPUT messages were handled since the last tick, the
\* direction an alive human snake of length at least 2 has when step runs
\* is not the opposite of the direction of its last committed move: inputs
\* never steer the snake onto its own neck cell.
C37_InputsNeverReverse ==
    [][DeltaBroadcast =>
          \A i \in AliveIdx(players) :
             (~players[i].is_bot /\ Len(players[i].body) >= 2)
                => /\ players[i].direction # Opposite(CommittedDirection(i))
                   /\ NextHead(i) # players[i].body[2]]_vars

\* C38: a connection is a member of at most one room at a time: a
\* connection whose current_room is another room has no player in this
\* room, the players map holds no id twice, and once a connection has
\* closed its player is disconnected in (or gone from) this room.
C38_OneRoomPerConnection ==
    /\ \A c \in Conns : conn[c] = "moved" => c \notin Ids(players)
    /\ \A i, j \in 1 .. Len(players) :
          players[i].id = players[j].id => i = j
    /\ \A c \in Conns :
          (conn[c] = "closed" /\ c \in Ids(players))
             => ~Get(players, c).connected

\* C39: during a round a player that is not alive is made alive only if it
\* is a benched bot that is not in death_order; a player that has been
\* eliminated (alive=false, eliminated=true) stays not alive until
\* start_game runs again, also within the step that eliminates it: no
\* alive player of a round is eliminated or listed in death_order.
C39_EliminatedStayDead ==
    [][status = "RUNNING" =>
          \A i \in 1 .. Len(players') :
             players'[i].alive =>
                /\ ~players'[i].eliminated
                /\ players'[i].id \notin SeqToSet(death_order')
                /\ \E j \in 1 .. Len(players) :
                      /\ players[j].id = players'[i].id
                      /\ \/ players[j].alive
                         \/ /\ is_benched_bot(players[j])
                            /\ ~players[j].eliminated
                            /\ players[j].id \notin SeqToSet(death_order)]_vars

\* A step has revived a benched bot while an eliminated player stays dead.
C39_Witness ==
    /\ status = "RUNNING"
    /\ sent.t = "d"
    /\ \E k \in 1 .. Len(sent.moves) :
          /\ sent.moves[k].kind = "revived"
          /\ sent.moves[k].id \in Ids(players)
          /\ Get(players, sent.moves[k].id).alive
          /\ Get(players, sent.moves[k].id).is_bot
    /\ \E i \in 1 .. Len(players) :
          /\ ~players[i].alive
          /\ players[i].eliminated
          /\ players[i].id \in SeqToSet(death_order)

\* C40: in every GAME_OVER whose ranks list is not empty, winner_id is the
\* id of the entry that has rank 1 (the first entry of ranks).
C40_WinnerIsRankOne ==
    [][(EndDone /\ sent'.ranks # <<>>) =>
          /\ sent'.ranks[1].rank = 1
          /\ sent'.winner_id = sent'.ranks[1].id]_vars

====
